---------------------------- MODULE Spec2Model ----------------------------
(***************************************************************************)
(* A model of the research agent of ai-agent-scraper: ResearchAgent (the   *)
(* orchestrator with its connector registry and result log), Memory (the   *)
(* ledger) and the connectors the agent is built with.                     *)
(*                                                                         *)
(* Python values are records tagged by their type (field ty).  A Python    *)
(* str is the sequence of its characters; a fixed message of the source    *)
(* that no operation looks into is written as one symbol.  A dict is the   *)
(* sequence of its items in insertion order.                               *)
(***************************************************************************)
EXTENDS Integers, Sequences, FiniteSets, TLC

(***************************************************************************)
(* Bounds of the model.                                                    *)
(***************************************************************************)
\* run calls made on the agent in one behaviour
MaxRuns == 2
\* fragments a task of the classification check is glued from
MaxFrags == 2
\* in the runs of the ledger alone, the operations made between two clears
MaxOps == 4

(***************************************************************************)
(* Python values.                                                          *)
(***************************************************************************)
PyNone == [ty |-> "none"]
PyBool(b) == [ty |-> "bool", b |-> b]
PyInt(n) == [ty |-> "int", n |-> n]
PyStr(s) == [ty |-> "str", s |-> s]
PyList(xs) == [ty |-> "list", items |-> xs]
\* items: a sequence of [k |-> key text, v |-> value], keys pairwise distinct
PyDict(items) == [ty |-> "dict", items |-> items]
PyExc(name) == [ty |-> "exception", name |-> name]
EmptyDict == PyDict(<<>>)
Item(k, v) == [k |-> k, v |-> v]

\* bool(v): the truth value Python's `not v` / `if v` tests
Truthy(v) ==
    CASE v.ty = "none" -> FALSE
      [] v.ty = "bool" -> v.b
      [] v.ty = "int" -> v.n # 0
      [] v.ty = "str" -> v.s # <<>>
      [] v.ty = "list" -> v.items # <<>>
      [] v.ty = "dict" -> v.items # <<>>
      [] OTHER -> TRUE

IsStr(v) == v.ty = "str"
IsDict(v) == v.ty = "dict"
IsExc(v) == v.ty = "exception"

\* key in d, for a dict d
HasKey(d, k) == \E i \in DOMAIN d.items : d.items[i].k = k
\* d.get(k, default), for a dict d
DictGet(d, k, default) ==
    IF HasKey(d, k)
    THEN d.items[CHOOSE i \in DOMAIN d.items : d.items[i].k = k].v
    ELSE default
\* list(d.keys()), for a dict d
DictKeys(d) == [i \in DOMAIN d.items |-> d.items[i].k]

(***************************************************************************)
(* Text: str.lower(), str.upper() and the substring test `x in s`.         *)
(***************************************************************************)
UpperCase == <<"A", "B", "C", "D", "E", "F", "G", "H", "I", "J", "K", "L", "M",
               "N", "O", "P", "Q", "R", "S", "T", "U", "V", "W", "X", "Y", "Z">>
LowerCase == <<"a", "b", "c", "d", "e", "f", "g", "h", "i", "j", "k", "l", "m",
               "n", "o", "p", "q", "r", "s", "t", "u", "v", "w", "x", "y", "z">>

LowerChar(c) ==
    IF \E i \in DOMAIN UpperCase : UpperCase[i] = c
    THEN LowerCase[CHOOSE i \in DOMAIN UpperCase : UpperCase[i] = c]
    ELSE c
UpperChar(c) ==
    IF \E i \in DOMAIN LowerCase : LowerCase[i] = c
    THEN UpperCase[CHOOSE i \in DOMAIN LowerCase : LowerCase[i] = c]
    ELSE c
Lower(s) == [i \in DOMAIN s |-> LowerChar(s[i])]
Upper(s) == [i \in DOMAIN s |-> UpperChar(s[i])]

\* needle in hay, for two str
Contains(needle, hay) ==
    \E i \in 0..(Len(hay) - Len(needle)) :
        SubSeq(hay, i + 1, i + Len(needle)) = needle

K_bitcoin == <<"b", "i", "t", "c", "o", "i", "n">>
K_btc == <<"b", "t", "c">>
K_crypto == <<"c", "r", "y", "p", "t", "o">>
K_news == <<"n", "e", "w", "s">>
K_article == <<"a", "r", "t", "i", "c", "l", "e">>
K_general == <<"g", "e", "n", "e", "r", "a", "l">>
K_bad == <<"b", "a", "d">>
K_topic == <<"t", "o", "p", "i", "c">>
K_query == <<"q", "u", "e", "r", "y">>
K_type == <<"t", "y", "p", "e">>
K_error == <<"e", "r", "r", "o", "r">>
K_task == <<"t", "a", "s", "k">>
K_success == <<"s", "u", "c", "c", "e", "s", "s">>
K_available_scraper == <<"a", "v", "a", "i", "l", "a", "b", "l", "e", "_",
                         "s", "c", "r", "a", "p", "e", "r">>
K_scraped_data == <<"s", "c", "r", "a", "p", "e", "d", "_", "d", "a", "t", "a">>
K_analysis == <<"a", "n", "a", "l", "y", "s", "i", "s">>
K_results == <<"r", "e", "s", "u", "l", "t", "s">>
K_articles == <<"a", "r", "t", "i", "c", "l", "e", "s">>
K_info == <<"i", "n", "f", "o">>
K_source == <<"s", "o", "u", "r", "c", "e">>
K_symbol == <<"s", "y", "m", "b", "o", "l">>
K_price == <<"p", "r", "i", "c", "e">>
K_change == <<"c", "h", "a", "n", "g", "e">>
K_market_cap == <<"m", "a", "r", "k", "e", "t", "_", "c", "a", "p">>
K_title == <<"t", "i", "t", "l", "e">>
K_content == <<"c", "o", "n", "t", "e", "n", "t">>
K_date == <<"d", "a", "t", "e">>
K_description == <<"d", "e", "s", "c", "r", "i", "p", "t", "i", "o", "n">>
K_applications == <<"a", "p", "p", "l", "i", "c", "a", "t", "i", "o", "n", "s">>
K_examples == <<"e", "x", "a", "m", "p", "l", "e", "s">>
K_types == <<"t", "y", "p", "e", "s">>
K_libraries == <<"l", "i", "b", "r", "a", "r", "i", "e", "s">>
K_use_cases == <<"u", "s", "e", "_", "c", "a", "s", "e", "s">>
K_layers == <<"l", "a", "y", "e", "r", "s">>
K_process == <<"p", "r", "o", "c", "e", "s", "s">>

(***************************************************************************)
(* ResearchAgent._parse_task and ResearchAgent._decide_scraper.            *)
(***************************************************************************)
\* a bug of _parse_task: the news keywords are looked for first
ParseBranches_NewsFirst(task) ==
    LET task_lower == Lower(task.s)
    IN IF Contains(K_news, task_lower) \/ Contains(K_article, task_lower)
       THEN PyDict(<<Item(K_topic, task), Item(K_query, task),
                     Item(K_type, PyStr(K_news))>>)
       ELSE IF Contains(K_bitcoin, task_lower) \/ Contains(K_btc, task_lower)
               \/ Contains(K_crypto, task_lower)
       THEN PyDict(<<Item(K_topic, task), Item(K_query, PyStr(K_bitcoin)),
                     Item(K_type, PyStr(K_crypto))>>)
       ELSE PyDict(<<Item(K_topic, task), Item(K_query, task),
                     Item(K_type, PyStr(K_general))>>)

\* _parse_task, lines 167-183: the branches taken for a non-empty str
ParseBranches(task) ==
    LET task_lower == Lower(task.s)
    IN IF Contains(K_bitcoin, task_lower) \/ Contains(K_btc, task_lower)
          \/ Contains(K_crypto, task_lower)
       THEN PyDict(<<Item(K_topic, task), Item(K_query, PyStr(K_bitcoin)),
                     Item(K_type, PyStr(K_crypto))>>)
       ELSE IF Contains(K_news, task_lower) \/ Contains(K_article, task_lower)
       THEN PyDict(<<Item(K_topic, task), Item(K_query, task),
                     Item(K_type, PyStr(K_news))>>)
       ELSE PyDict(<<Item(K_topic, task), Item(K_query, task),
                     Item(K_type, PyStr(K_general))>>)

\* a bug of _parse_task: only falsy tasks are refused
_parse_task_NoTypeCheck(task) ==
    IF ~Truthy(task) THEN EmptyDict
    ELSE IF IsStr(task) THEN ParseBranches(task)
    ELSE PyDict(<<Item(K_topic, task), Item(K_query, task),
                  Item(K_type, PyStr(K_general))>>)

_parse_task(task) ==
    IF ~Truthy(task) \/ ~IsStr(task)
    THEN EmptyDict
    ELSE ParseBranches(task)

_decide_scraper(parsed_task) ==
    LET task_type == DictGet(parsed_task, K_type, PyStr(K_general))
    IN IF task_type = PyStr(K_crypto) THEN K_crypto
       ELSE IF task_type = PyStr(K_news) THEN K_news
       ELSE K_general

(***************************************************************************)
(* str(v) and repr(v), as the f-strings of the source apply them.          *)
(***************************************************************************)
Digits == <<"0", "1", "2", "3", "4", "5", "6", "7", "8", "9">>

RECURSIVE IntText(_)
IntText(n) ==
    IF n < 10 THEN <<Digits[n + 1]>>
    ELSE IntText(n \div 10) \o <<Digits[(n % 10) + 1]>>

RECURSIVE ReprOf(_)
ReprOf(v) ==
    CASE v.ty = "none" -> <<"N", "o", "n", "e">>
      [] v.ty = "bool" -> IF v.b THEN <<"T", "r", "u", "e">>
                          ELSE <<"F", "a", "l", "s", "e">>
      [] v.ty = "int" -> IF v.n < 0 THEN <<"-">> \o IntText(0 - v.n)
                         ELSE IntText(v.n)
      [] v.ty = "str" -> <<"'">> \o v.s \o <<"'">>
      [] v.ty = "list" ->
           LET upto[i \in 0..Len(v.items)] ==
                   IF i = 0 THEN <<>>
                   ELSE upto[i - 1] \o (IF i > 1 THEN <<",", " ">> ELSE <<>>)
                        \o ReprOf(v.items[i])
           IN <<"[">> \o upto[Len(v.items)] \o <<"]">>
      [] v.ty = "dict" ->
           LET upto[i \in 0..Len(v.items)] ==
                   IF i = 0 THEN <<>>
                   ELSE upto[i - 1] \o (IF i > 1 THEN <<",", " ">> ELSE <<>>)
                        \o <<"'">> \o v.items[i].k \o <<"'", ":", " ">>
                        \o ReprOf(v.items[i].v)
           IN <<"{">> \o upto[Len(v.items)] \o <<"}">>
      [] OTHER -> <<"<object>">>

StrOf(v) == IF IsStr(v) THEN v.s ELSE ReprOf(v)

(***************************************************************************)
(* Memory (base_agent.py): the ledger of one agent.                        *)
(***************************************************************************)
Memory_init ==
    [task |-> PyNone, thoughts |-> <<>>, tool_calls |-> 0,
     findings |-> <<>>, history |-> <<>>]

\* set_task leaving no history entry
set_task_NoHistory(m, task) == [m EXCEPT !.task = task]

set_task(m, task) ==
    [m EXCEPT !.task = task,
              !.history = Append(@, <<"Task set: ">> \o StrOf(task))]

\* add_thoughts that logs the thought and does not keep it
add_thoughts_HistoryOnly(m, thought) ==
    [m EXCEPT !.history = Append(@, <<"Thought: ">> \o thought)]

add_thoughts(m, thought) ==
    [m EXCEPT !.thoughts = Append(@, thought),
              !.history = Append(@, <<"Thought: ">> \o thought)]

\* record_tool_call that logs the call and does not count it
record_tool_call_NoCount(m, tool_name) ==
    [m EXCEPT !.history = Append(@, <<"Tool called: ">> \o tool_name)]

\* record_tool_call counting the call twice
record_tool_call_Twice(m, tool_name) ==
    [m EXCEPT !.tool_calls = @ + 2,
              !.history = Append(@, <<"Tool called: ">> \o tool_name)]

record_tool_call(m, tool_name) ==
    [m EXCEPT !.tool_calls = @ + 1,
              !.history = Append(@, <<"Tool called: ">> \o tool_name)]

\* add_finding leaving no history entry
add_finding_NoHistory(m, finding) == [m EXCEPT !.findings = Append(@, finding)]

add_finding(m, finding) ==
    [m EXCEPT !.findings = Append(@, finding),
              !.history = Append(@, <<"Finding: ">> \o finding)]

get_summary(m) ==
    [task |-> m.task, thoughts |-> m.thoughts, tool_calls |-> m.tool_calls,
     findings |-> m.findings, history_length |-> Len(m.history)]

Memory_clear(m) ==
    [m EXCEPT !.task = PyNone, !.thoughts = <<>>, !.tool_calls = 0,
              !.findings = <<>>, !.history = <<>>]

\* the k-th assignment of Memory.clear
ClearAssign(m, k) ==
    CASE k = 1 -> [m EXCEPT !.task = PyNone]
      [] k = 2 -> [m EXCEPT !.thoughts = <<>>]
      [] k = 3 -> [m EXCEPT !.tool_calls = 0]
      [] k = 4 -> [m EXCEPT !.findings = <<>>]
      [] k = 5 -> [m EXCEPT !.history = <<>>]

(***************************************************************************)
(* The connectors (src/scrapers).  What the network answers is an input    *)
(* of each fetch: `net` is the way the outbound request ends.              *)
(***************************************************************************)
Whitespace == {" ", "\t", "\n", "\r"}

\* s.strip()
Strip(s) ==
    LET idx == {i \in DOMAIN s : s[i] \notin Whitespace}
    IN IF idx = {} THEN <<>>
       ELSE SubSeq(s, CHOOSE i \in idx : \A j \in idx : i <= j,
                      CHOOSE i \in idx : \A j \in idx : i >= j)

\* s.replace(c, ""), for a character c
Without(s, c) == SelectSeq(s, LAMBDA x : x # c)

\* validate_query without the test of lines 92-94
validate_query_NoStrip(query) ==
    IF ~Truthy(query) \/ ~IsStr(query) THEN FALSE ELSE TRUE

\* BaseScraper.validate_query
validate_query(query) ==
    IF ~Truthy(query) \/ ~IsStr(query) THEN FALSE
    ELSE IF Len(Strip(query.s)) = 0 THEN FALSE
    ELSE TRUE

\* the error marker every connector returns on failure
ErrorMarker(msg) ==
    PyDict(<<Item(K_error, PyStr(<<msg>>)), Item(K_success, PyBool(FALSE))>>)

\* CryptoScraper.parse_data on a CoinGecko answer
CryptoScraper_parse_data ==
    PyDict(<<Item(<<"c", "r", "y", "p", "t", "o", "_", "i", "d">>,
                  PyStr(Upper(K_bitcoin))),
             Item(<<"p", "r", "i", "c", "e", "_", "u", "s", "d">>,
                  PyStr(<<"$45,000.00">>)),
             Item(<<"m", "a", "r", "k", "e", "t", "_", "c", "a", "p", "_",
                    "u", "s", "d">>, PyStr(<<"$900,000,000,000">>)),
             Item(<<"2", "4", "h", "_", "v", "o", "l", "u", "m", "e", "_",
                    "u", "s", "d">>, PyStr(<<"$30,000,000,000">>)),
             Item(<<"2", "4", "h", "_", "c", "h", "a", "n", "g", "e", "_",
                    "p", "e", "r", "c", "e", "n", "t">>, PyStr(<<"2.50%">>)),
             Item(K_source, PyStr(<<"CoinGecko API">>)),
             Item(K_success, PyBool(TRUE))>>)

CryptoNet == {"ok", "timeout"}

CryptoScraper_fetch(query, net) ==
    IF ~validate_query(query) THEN ErrorMarker("Invalid query")
    ELSE IF net = "ok" THEN CryptoScraper_parse_data
    ELSE ErrorMarker("Request timeout - CoinGecko server not responding")

\* queries: a list of str
CryptoScraper_fetch_prices(queries, net) ==
    PyDict([i \in DOMAIN queries.items |->
               Item(queries.items[i].s, CryptoScraper_fetch(queries.items[i], net))])

\* NewsScraper.parse_data on a NewsAPI answer holding one article
NewsScraper_parse_data ==
    PyDict(<<Item(K_articles, PyList(<<
                PyDict(<<Item(K_title, PyStr(<<"AI Breakthroughs">>)),
                         Item(K_description, PyStr(<<"Recent advancements">>)),
                         Item(K_content, PyStr(<<"Recent advancements in AI">>)),
                         Item(K_source, PyStr(<<"TechNews">>)),
                         Item(<<"u", "r", "l">>, PyStr(<<"https://example.org/a">>))
                       >>) >>)),
             Item(<<"t", "o", "t", "a", "l", "_", "r", "e", "s", "u", "l", "t", "s">>,
                  PyInt(1)),
             Item(K_source, PyStr(<<"NewsAPI">>)),
             Item(K_success, PyBool(TRUE))>>)

NewsNet == {"no_api_key", "ok"}

NewsScraper_fetch(query, net) ==
    IF ~validate_query(query) THEN ErrorMarker("Invalid query")
    ELSE IF net = "no_api_key"
    THEN ErrorMarker("NEWS_API_KEY not configured in .env file")
    ELSE IF net = "ok" THEN NewsScraper_parse_data
    ELSE ErrorMarker("request failed")

\* GeneralScraper.general_data, in insertion order
general_data ==
    << [topic |-> <<"a", "i">>,
        info |-> PyDict(<<
            Item(K_title, PyStr(<<"Artificial Intelligence (AI)">>)),
            Item(K_description, PyStr(<<"Artificial Intelligence is ...">>)),
            Item(K_applications, PyList(<<PyStr(<<"Machine Learning">>),
                                          PyStr(<<"Robotics">>)>>)),
            Item(K_examples, PyList(<<PyStr(<<"ChatGPT">>)>>)) >>)],
       [topic |-> <<"m", "a", "c", "h", "i", "n", "e", " ",
                    "l", "e", "a", "r", "n", "i", "n", "g">>,
        info |-> PyDict(<<
            Item(K_title, PyStr(<<"Machine Learning (ML)">>)),
            Item(K_description, PyStr(<<"Machine Learning is ...">>)),
            Item(K_types, PyList(<<PyStr(<<"Supervised Learning">>)>>)),
            Item(K_applications, PyList(<<PyStr(<<"Fraud Detection">>)>>)) >>)],
       [topic |-> <<"p", "y", "t", "h", "o", "n">>,
        info |-> PyDict(<<
            Item(K_title, PyStr(<<"Python Programming Language">>)),
            Item(K_description, PyStr(<<"Python is ...">>)),
            Item(K_libraries, PyList(<<PyStr(<<"NumPy">>)>>)),
            Item(K_use_cases, PyList(<<PyStr(<<"Data Analysis">>)>>)) >>)] >>

\* GeneralScraper.parse_data on a Wikipedia summary
GeneralScraper_parse_data ==
    PyDict(<<Item(K_title, PyStr(<<"Title">>)),
             Item(K_description, PyStr(<<"Extract">>)),
             Item(K_source, PyStr(<<"Wikipedia API">>)),
             Item(<<"u", "r", "l">>, PyStr(<<"#">>)),
             Item(K_success, PyBool(TRUE))>>)

GeneralNet == {"ok", "error"}

GeneralScraper_fetch(query, net) ==
    IF ~validate_query(query) THEN ErrorMarker("Invalid query")
    ELSE LET query_clean == Strip(Without(Without(Lower(query.s), "."), "?"))
             hits == {i \in DOMAIN general_data :
                         Contains(general_data[i].topic, query_clean)
                         \/ Contains(query_clean, general_data[i].topic)}
         IN IF hits # {}
            THEN PyDict(<<Item(K_query, query),
                          Item(K_info, general_data[CHOOSE i \in hits :
                                            \A j \in hits : i <= j].info),
                          Item(K_source, PyStr(<<"Local Database">>)),
                          Item(K_success, PyBool(TRUE))>>)
            ELSE IF net = "ok" THEN GeneralScraper_parse_data
            ELSE ErrorMarker("request failed")

(***************************************************************************)
(* ResearchAgent._analyze_data.  Its value is the str it returns, or the   *)
(* exception the Python operation it applies to `data` raises.             *)
(***************************************************************************)
\* the types `x in c` is defined for; any other raises TypeError
IsContainer(c) == c.ty \in {"dict", "list", "str"}

\* key in c, for a str key and a container c
PyIn(key, c) ==
    CASE c.ty = "dict" -> HasKey(c, key)
      [] c.ty = "list" -> \E i \in DOMAIN c.items : c.items[i] = PyStr(key)
      [] c.ty = "str" -> Contains(key, c.s)
      [] OTHER -> FALSE

\* the values a for loop over v visits (v a list, a dict or a str)
Elements(v) ==
    CASE v.ty = "list" -> v.items
      [] v.ty = "dict" -> [i \in DOMAIN v.items |-> PyStr(v.items[i].k)]
      [] v.ty = "str" -> [i \in DOMAIN v.s |-> PyStr(<<v.s[i]>>)]
      [] OTHER -> <<>>

\* the concatenation of the texts part[1], ..., part[n]
Concat(part) ==
    LET upto[i \in 0..Len(part)] ==
            IF i = 0 THEN <<>> ELSE upto[i - 1] \o part[i]
    IN upto[Len(part)]

\* sep.join(v) is defined: v is iterable and yields only str
Joinable(v) ==
    /\ v.ty \in {"list", "dict", "str"}
    /\ \A i \in DOMAIN Elements(v) : IsStr(Elements(v)[i])

\* sep.join(v)
Join(sep, v) ==
    Concat([i \in DOMAIN Elements(v) |->
               (IF i > 1 THEN <<sep>> ELSE <<>>) \o Elements(v)[i].s])

NA == PyStr(<<"N/A">>)

Header(topic) == <<"Research findings for ">> \o StrOf(topic) \o <<":\n\n">>

FormatCrypto(data, topic) ==
    IF ~IsContainer(data) THEN PyExc("TypeError")
    ELSE IF PyIn(K_results, data)
    THEN IF ~IsDict(data) THEN PyExc("TypeError")
         ELSE LET results == DictGet(data, K_results, PyNone)
              IN IF ~IsDict(results) THEN PyExc("AttributeError")
                 ELSE PyStr(Header(topic)
                        \o StrOf(DictGet(results, K_symbol, PyStr(<<>>)))
                        \o <<" Information:\n">>
                        \o <<"Current Price: ">>
                        \o StrOf(DictGet(results, K_price, NA)) \o <<"\n">>
                        \o <<"24h Change: ">>
                        \o StrOf(DictGet(results, K_change, NA)) \o <<"\n">>
                        \o <<"Market Cap: ">>
                        \o StrOf(DictGet(results, K_market_cap, NA)) \o <<"\n">>)
    ELSE IF ~IsDict(data) THEN PyExc("AttributeError")
         ELSE PyStr(Header(topic)
                \o Concat([i \in DOMAIN data.items |->
                      IF data.items[i].k \in {K_query, K_source, K_success}
                      THEN <<>>
                      ELSE Upper(data.items[i].k) \o <<": ">>
                           \o StrOf(data.items[i].v) \o <<"\n">>]))

FormatNews(data, topic) ==
    IF ~IsContainer(data) THEN PyExc("TypeError")
    ELSE IF ~PyIn(K_articles, data) THEN PyStr(Header(topic))
    ELSE IF ~IsDict(data) THEN PyExc("TypeError")
    ELSE LET articles == Elements(DictGet(data, K_articles, PyNone))
         IN IF ~IsContainer(DictGet(data, K_articles, PyNone))
            THEN PyExc("TypeError")
            ELSE IF \E i \in DOMAIN articles : ~IsDict(articles[i])
            THEN PyExc("AttributeError")
            ELSE PyStr(Header(topic)
                   \o Concat([i \in DOMAIN articles |->
                         <<"Article ">> \o IntText(i) \o <<": ">>
                         \o StrOf(DictGet(articles[i], K_title, NA)) \o <<"\n">>
                         \o <<"Content: ">>
                         \o StrOf(DictGet(articles[i], K_content, NA)) \o <<"\n">>
                         \o <<"Source: ">>
                         \o StrOf(DictGet(articles[i], K_source, NA)) \o <<"\n">>
                         \o <<"Date: ">>
                         \o StrOf(DictGet(articles[i], K_date, NA)) \o <<"\n\n">>]))

\* the list-valued fields of the general format, with label and separator
GeneralFields ==
    << [key |-> K_applications, label |-> "Key Applications: ", sep |-> ", "],
       [key |-> K_examples, label |-> "Examples: ", sep |-> ", "],
       [key |-> K_types, label |-> "Types: ", sep |-> ", "],
       [key |-> K_libraries, label |-> "Popular Libraries/Tools: ", sep |-> ", "],
       [key |-> K_use_cases, label |-> "Use Cases: ", sep |-> ", "],
       [key |-> K_layers, label |-> "Components: ", sep |-> ", "],
       [key |-> K_process, label |-> "Process Steps: ", sep |-> " -> "] >>

FormatGeneral(data, topic) ==
    IF ~IsContainer(data) THEN PyExc("TypeError")
    ELSE IF ~PyIn(K_info, data) THEN PyStr(Header(topic))
    ELSE IF ~IsDict(data) THEN PyExc("TypeError")
    ELSE LET info == DictGet(data, K_info, PyNone)
         IN IF ~IsDict(info) THEN PyExc("AttributeError")
            ELSE IF \E f \in DOMAIN GeneralFields :
                       /\ HasKey(info, GeneralFields[f].key)
                       /\ ~Joinable(DictGet(info, GeneralFields[f].key, PyNone))
            THEN PyExc("TypeError")
            ELSE PyStr(Header(topic)
                   \o <<"**">>
                   \o StrOf(DictGet(info, K_title, PyStr(<<"Information">>)))
                   \o <<"**\n\n">>
                   \o StrOf(DictGet(info, K_description, PyStr(<<>>)))
                   \o <<"\n\n">>
                   \o Concat([f \in DOMAIN GeneralFields |->
                         IF HasKey(info, GeneralFields[f].key)
                         THEN <<GeneralFields[f].label>>
                              \o Join(GeneralFields[f].sep,
                                      DictGet(info, GeneralFields[f].key, PyNone))
                              \o <<"\n">>
                         ELSE <<>>]))

_analyze_data(data, parsed_task) ==
    IF ~Truthy(data) THEN PyStr(<<"No data to analyze">>)
    ELSE LET task_type == DictGet(parsed_task, K_type, PyNone)
             topic == DictGet(parsed_task, K_topic, PyNone)
         IN IF task_type = PyStr(K_crypto) THEN FormatCrypto(data, topic)
            ELSE IF task_type = PyStr(K_news) THEN FormatNews(data, topic)
            ELSE IF task_type = PyStr(K_general) THEN FormatGeneral(data, topic)
            ELSE PyStr(<<"Research findings for ">> \o StrOf(topic) \o <<":\n">>
                       \o StrOf(data) \o <<"\n">>)

(***************************************************************************)
(* The connector objects an agent can hold, named by their class, and what *)
(* a call of one of their capability methods can do.  MagicMock is the     *)
(* test double of tests/test_research_agent.py, object a connector with    *)
(* none of the capability methods.                                         *)
(***************************************************************************)
Scrapers ==
    {"CryptoScraper", "NewsScraper", "GeneralScraper", "DummyScraper",
     "MagicMock", "object"}

\* hasattr(scraper, name), for the three capability methods
hasattr(scraper, name) ==
    CASE scraper = "CryptoScraper" -> name = "fetch_prices"
      [] scraper = "NewsScraper" -> name = "fetch_article"
      [] scraper = "GeneralScraper" -> name = "fetch_general"
      [] scraper = "DummyScraper" ->
           name \in {"fetch_prices", "fetch_article", "fetch_general"}
      [] scraper = "MagicMock" ->
           name \in {"fetch_prices", "fetch_article", "fetch_general"}
      [] OTHER -> FALSE

\* DummyScraper.fetch_prices(query), query a list
DummyScraper_fetch_prices(query) ==
    PyDict(<<Item(K_bitcoin, PyStr(<<"$45,000">>)),
             Item(<<"e", "t", "h", "e", "r", "e", "u", "m">>, PyStr(<<"$2,500">>)),
             Item(<<"c", "a", "r", "d", "a", "n", "o">>, PyStr(<<"$0.80">>)),
             Item(<<"r", "i", "p", "p", "l", "e">>, PyStr(<<"$2.10">>)),
             Item(K_query, IF Truthy(query) THEN query.items[1]
                           ELSE PyStr(<<"unknown">>)),
             Item(K_source, PyStr(<<"Demo Data">>))>>)

\* the return_value of the mock_crypto_scraper fixture (its first two fields)
MockPrices ==
    PyDict(<<Item(K_bitcoin,
                  PyDict(<<Item(K_price, PyInt(45000)),
                           Item(<<"c", "u", "r", "r", "e", "n", "c", "y">>,
                                PyStr(<<"u", "s", "d">>))>>))>>)

\* the answer the crypto format's 'results' branch reads
ResultsData ==
    PyDict(<<Item(K_query, PyStr(K_bitcoin)),
             Item(K_results,
                  PyDict(<<Item(K_symbol, PyStr(<<"B", "T", "C">>)),
                           Item(K_price, PyStr(<<"$45,000">>))>>)),
             Item(K_success, PyBool(TRUE))>>)

\* what a test double is set up to do: raise, or return one of these values
MockReplies ==
    {PyExc("Exception"), PyNone, MockPrices, ResultsData,
     PyList(<<PyStr(K_bitcoin)>>)}

\* the outcomes of scraper.method(arg): the value returned or the exception
Call(scraper, method, arg) ==
    CASE scraper = "CryptoScraper" /\ method = "fetch_prices" ->
           {CryptoScraper_fetch_prices(arg, net) : net \in CryptoNet}
      [] scraper = "NewsScraper" /\ method = "fetch_article" ->
           {NewsScraper_fetch(arg, net) : net \in NewsNet}
      [] scraper = "GeneralScraper" /\ method = "fetch_general" ->
           {GeneralScraper_fetch(arg, net) : net \in GeneralNet}
      [] scraper = "DummyScraper" /\ method = "fetch_prices" ->
           {DummyScraper_fetch_prices(arg)}
      [] scraper = "MagicMock" -> MockReplies
      [] OTHER -> {PyExc("AttributeError")}

(***************************************************************************)
(* ResearchAgent._execute_scraper: the method it picks, the argument it    *)
(* passes, and what it returns for the outcome `out` of that call.         *)
(***************************************************************************)
\* the probes of _execute_scraper with fetch_article tried first
ExecMethod_ArticleFirst(scraper) ==
    IF hasattr(scraper, "fetch_article") THEN "fetch_article"
    ELSE IF hasattr(scraper, "fetch_prices") THEN "fetch_prices"
    ELSE IF hasattr(scraper, "fetch_general") THEN "fetch_general"
    ELSE "none"

ExecMethod(scraper) ==
    IF hasattr(scraper, "fetch_prices") THEN "fetch_prices"
    ELSE IF hasattr(scraper, "fetch_article") THEN "fetch_article"
    ELSE IF hasattr(scraper, "fetch_general") THEN "fetch_general"
    ELSE "none"

ExecArg(method, parsed_task) ==
    LET query == DictGet(parsed_task, K_query, PyNone)
    IN IF method = "fetch_prices" THEN PyList(<<query>>) ELSE query

\* _execute_scraper without its except clause
_execute_scraper_NoCatch(scraper, parsed_task, out) ==
    IF ExecMethod(scraper) = "none" THEN PyNone ELSE out

_execute_scraper(scraper, parsed_task, out) ==
    IF ExecMethod(scraper) = "none" THEN PyNone
    ELSE IF IsExc(out) THEN PyNone
    ELSE out

(***************************************************************************)
(* The registry: a dict from connector name to connector object.           *)
(***************************************************************************)
\* d[k] = v adding an entry whether or not the key is there
DictSet_Append(d, k, v) == PyDict(Append(d.items, Item(k, v)))

\* d[k] = v
DictSet(d, k, v) ==
    IF HasKey(d, k)
    THEN PyDict([i \in DOMAIN d.items |->
                    IF d.items[i].k = k THEN Item(k, v) ELSE d.items[i]])
    ELSE PyDict(Append(d.items, Item(k, v)))

\* ResearchAgent.register_scraper, on the registry
register_scraper(tools, scraper_name, scraper_object) ==
    DictSet(tools, scraper_name, scraper_object)

(***************************************************************************)
(* The state of one ResearchAgent and of the run calls made on it.         *)
(***************************************************************************)
VARIABLES
    scraper_tools,    \* self.scraper_tools: the registry
    search_results,   \* self.search_results: the result log
    memory,           \* self.memory: the ledger
    frame,            \* per caller: the position and the locals of its run call
    finished,         \* what the run calls ended with (a result or an exception),
                      \* in the order they ended, since the log was last emptied
    nruns,            \* run calls made so far
    memory_ops,       \* calls of set_task, add_thoughts, record_tool_call and
                      \* add_finding made on self.memory since it was created
                      \* or last cleared
    RESEARCH_HISTORY, \* backend/app.py: the entries the transport layer has saved
    websocket         \* backend/app.py: the position and the locals of the
                      \* handler of the streaming channel, with the messages it
                      \* has sent since the last one it received

vars ==
    <<scraper_tools, search_results, memory, frame, finished, nruns, memory_ops,
      RESEARCH_HISTORY, websocket>>

\* the threads that may call the agent; a sequential program is the first alone
Callers == {"c1", "c2"}
SeqCallers == {"c1"}

\* the frame of a caller that is not inside run; calls, tool_calls0,
\* results0 and memory0 observe the call: the connector calls it made with
\* their outcomes, and memory.tool_calls, the result log and the ledger as
\* it began; cleared is the position of a caller inside Memory.clear, the
\* number of assignments it has made
IdleFrame ==
    [pc |-> "Idle", task |-> PyNone, parsed_task |-> EmptyDict,
     scraper_name |-> <<>>, scraper |-> "none", scraped_data |-> PyNone,
     result |-> PyNone, calls |-> <<>>, tool_calls0 |-> 0, results0 |-> <<>>,
     memory0 |-> Memory_init, cleared |-> 0]

\* the streaming channel before a client has connected; requests counts
\* the messages with a query received so far
NoSocket ==
    [pc |-> "NotConnected", message |-> PyNone, query |-> PyNone,
     results |-> PyNone, memory |-> PyNone, sent |-> <<>>, requests |-> 0]

\* the tasks callers pass to run
Tasks ==
    {PyNone, PyStr(<<>>), PyInt(42),
     PyStr(<<"B", "T", "C", " ", "n", "e", "w", "s">>),
     PyStr(<<"N", "e", "w", "s">>),
     PyStr(<<"a", "i">>)}

\* the registrations callers make after construction
Registrations ==
    {<<K_crypto, "MagicMock">>, <<K_crypto, "object">>,
     <<K_news, "DummyScraper">>, <<K_bad, "MagicMock">>}

\* __init__ without the three register_scraper calls of lines 75-77
Init_NoDefaults ==
    /\ scraper_tools = EmptyDict
    /\ search_results = <<>>
    /\ memory = Memory_init
    /\ frame = [c \in Callers |-> IdleFrame]
    /\ finished = <<>>
    /\ nruns = 0
    /\ memory_ops = 0
    /\ RESEARCH_HISTORY = <<>>
    /\ websocket = NoSocket

\* ResearchAgent.__init__
Init ==
    /\ scraper_tools =
           register_scraper(
               register_scraper(
                   register_scraper(EmptyDict, K_crypto, "CryptoScraper"),
                   K_news, "NewsScraper"),
               K_general, "GeneralScraper")
    /\ search_results = <<>>
    /\ memory = Memory_init
    /\ frame = [c \in Callers |-> IdleFrame]
    /\ finished = <<>>
    /\ nruns = 0
    /\ memory_ops = 0
    /\ RESEARCH_HISTORY = <<>>
    /\ websocket = NoSocket

AllIdle == \A c \in Callers : frame[c].pc = "Idle"

\* the failure results of run
ParseFailure(task) ==
    PyDict(<<Item(K_error, PyStr(<<"Could not parse the research task">>)),
             Item(K_task, task), Item(K_success, PyBool(FALSE))>>)

\* the not-registered failure listing the names __init__ registers
NotRegistered_DefaultNames(scraper_name, tools) ==
    PyDict(<<Item(K_error, PyStr(<<"Scraper '">> \o scraper_name
                                  \o <<"' not registered">>)),
             Item(K_available_scraper,
                  PyList(<<PyStr(K_crypto), PyStr(K_news), PyStr(K_general)>>)),
             Item(K_success, PyBool(FALSE))>>)

NotRegistered(scraper_name, tools) ==
    PyDict(<<Item(K_error, PyStr(<<"Scraper '">> \o scraper_name
                                  \o <<"' not registered">>)),
             Item(K_available_scraper,
                  PyList([i \in DOMAIN DictKeys(tools) |->
                             PyStr(DictKeys(tools)[i])])),
             Item(K_success, PyBool(FALSE))>>)

ScrapeFailure(task) ==
    PyDict(<<Item(K_error, PyStr(<<"Could not scrape data">>)),
             Item(K_task, task), Item(K_success, PyBool(FALSE))>>)

\* the result run compiles in step 5
research_result(parsed_task, scraped_data, analysis) ==
    PyDict(<<Item(K_query, DictGet(parsed_task, K_query, PyNone)),
             Item(K_scraped_data, scraped_data),
             Item(K_analysis, analysis),
             Item(K_success, PyBool(TRUE))>>)

\* run without the append of line 153
LogAppend_Forgotten(log, result) == log

\* run replacing the log by a new list instead of appending to it
LogAppend_Overwrite(log, result) == <<result>>

\* self.search_results.append(research_result)
LogAppend(log, result) == Append(log, result)

\* run(task), lines 96-100: the task is stored in memory
RunStart(c, task) ==
    /\ frame[c].pc = "Idle"
    /\ nruns < MaxRuns
    /\ memory' = set_task(memory, task)
    /\ memory_ops' = memory_ops + 1
    /\ frame' = [frame EXCEPT ![c] =
                    [IdleFrame EXCEPT !.pc = "Classifying", !.task = task,
                                      !.tool_calls0 = memory.tool_calls,
                                      !.results0 = search_results,
                                      !.memory0 = memory]]
    /\ nruns' = nruns + 1
    /\ UNCHANGED <<RESEARCH_HISTORY, websocket, scraper_tools,
                   search_results, finished>>

\* run, step 1 (lines 103-111)
RunClassify(c) ==
    /\ frame[c].pc = "Classifying"
    /\ LET parsed_task == _parse_task(frame[c].task)
       IN IF ~Truthy(parsed_task)
          THEN /\ frame' = [frame EXCEPT ![c].pc = "Failed",
                                         ![c].result = ParseFailure(frame[c].task)]
               /\ finished' = Append(finished, ParseFailure(frame[c].task))
          ELSE /\ frame' = [frame EXCEPT ![c].pc = "Routing",
                                         ![c].parsed_task = parsed_task]
               /\ UNCHANGED finished
    /\ UNCHANGED <<RESEARCH_HISTORY, websocket, scraper_tools,
                   search_results, memory, nruns, memory_ops>>

\* run, step 2 and the lookup of step 3 (lines 114-130)
RunRoute(c) ==
    /\ frame[c].pc = "Routing"
    /\ LET scraper_name == _decide_scraper(frame[c].parsed_task)
           thought == <<"Decided to use: '">> \o scraper_name
                      \o <<"' scraper for this research">>
       IN IF ~HasKey(scraper_tools, scraper_name)
          THEN /\ memory' = add_thoughts(memory, thought)
               /\ memory_ops' = memory_ops + 1
               /\ frame' = [frame EXCEPT
                     ![c].pc = "Failed",
                     ![c].scraper_name = scraper_name,
                     ![c].result = NotRegistered(scraper_name, scraper_tools)]
               /\ finished' = Append(finished,
                                     NotRegistered(scraper_name, scraper_tools))
          ELSE /\ memory' = record_tool_call(add_thoughts(memory, thought),
                                             scraper_name)
               /\ memory_ops' = memory_ops + 2
               /\ frame' = [frame EXCEPT
                     ![c].pc = "Fetching",
                     ![c].scraper_name = scraper_name,
                     ![c].scraper = DictGet(scraper_tools, scraper_name, "none")]
               /\ UNCHANGED finished
    /\ UNCHANGED <<RESEARCH_HISTORY, websocket, scraper_tools,
                   search_results, nruns>>

\* run, the call of step 3 (lines 131-139); frame[c].calls records the
\* connector calls _execute_scraper makes; line 131 is in no try block, so
\* an exception of _execute_scraper would leave run
RunFetch(c) ==
    /\ frame[c].pc = "Fetching"
    /\ LET scraper == frame[c].scraper
           method == ExecMethod(scraper)
           arg == ExecArg(method, frame[c].parsed_task)
       IN \E out \in (IF method = "none" THEN {PyNone}
                      ELSE Call(scraper, method, arg)) :
            LET scraped_data == _execute_scraper(scraper, frame[c].parsed_task, out)
                calls == IF method = "none" THEN frame[c].calls
                         ELSE Append(frame[c].calls,
                                     [scraper |-> scraper, method |-> method,
                                      arg |-> arg, out |-> out])
            IN IF IsExc(scraped_data)
               THEN /\ frame' = [frame EXCEPT
                          ![c].pc = "Raised", ![c].calls = calls,
                          ![c].result = scraped_data]
                    /\ finished' = Append(finished, scraped_data)
               ELSE IF ~Truthy(scraped_data)
               THEN /\ frame' = [frame EXCEPT
                          ![c].pc = "Failed", ![c].calls = calls,
                          ![c].scraped_data = scraped_data,
                          ![c].result = ScrapeFailure(frame[c].task)]
                    /\ finished' = Append(finished, ScrapeFailure(frame[c].task))
               ELSE /\ frame' = [frame EXCEPT
                          ![c].pc = "Formatting", ![c].calls = calls,
                          ![c].scraped_data = scraped_data]
                    /\ UNCHANGED finished
    /\ UNCHANGED <<RESEARCH_HISTORY, websocket, scraper_tools,
                   search_results, memory, nruns, memory_ops>>

\* run, steps 4 and 5 (lines 142-156); an exception of _analyze_data leaves run
RunFormat(c) ==
    /\ frame[c].pc = "Formatting"
    /\ LET analysis == _analyze_data(frame[c].scraped_data, frame[c].parsed_task)
           result == research_result(frame[c].parsed_task, frame[c].scraped_data,
                                     analysis)
       IN IF IsExc(analysis)
          THEN /\ frame' = [frame EXCEPT ![c].pc = "Raised",
                                         ![c].result = analysis]
               /\ finished' = Append(finished, analysis)
               /\ UNCHANGED <<memory, search_results, memory_ops>>
          ELSE /\ memory' = add_finding(memory, analysis.s)
               /\ memory_ops' = memory_ops + 1
               /\ search_results' = LogAppend(search_results, result)
               /\ frame' = [frame EXCEPT ![c].pc = "Completed",
                                         ![c].result = result]
               /\ finished' = Append(finished, result)
    /\ UNCHANGED <<RESEARCH_HISTORY, websocket, scraper_tools, nruns>>

\* run has ended: with frame[c].result returned, or raised
Ended(c) == frame[c].pc \in {"Completed", "Failed", "Raised"}

\* the caller takes what run ended with
RunReturn(c) ==
    /\ Ended(c)
    /\ frame' = [frame EXCEPT ![c] = IdleFrame]
    /\ UNCHANGED <<RESEARCH_HISTORY, websocket, scraper_tools,
                   search_results, memory, finished, nruns, memory_ops>>

\* ResearchAgent.register_scraper
RegisterScraper(scraper_name, scraper_object) ==
    /\ AllIdle
    /\ scraper_tools' = register_scraper(scraper_tools, scraper_name, scraper_object)
    /\ UNCHANGED <<RESEARCH_HISTORY, websocket, search_results, memory, frame,
                   finished, nruns, memory_ops>>

\* ResearchAgent.get_research_history
get_research_history == search_results

\* r.get(key), for an entry r of the result log
ResultGet(r, key) == DictGet(r, key, PyNone)

\* get_research_summary counting the tool calls instead of the results
get_research_summary_CountsCalls ==
    [total_research |-> memory.tool_calls,
     successful |-> Cardinality({i \in DOMAIN search_results :
                                    Truthy(ResultGet(search_results[i], K_success))}),
     queries |-> [i \in DOMAIN search_results |->
                     ResultGet(search_results[i], K_query)],
     agent_memory |-> get_summary(memory)]

\* ResearchAgent.get_research_summary
get_research_summary ==
    [total_research |-> Len(search_results),
     successful |-> Cardinality({i \in DOMAIN search_results :
                                    Truthy(ResultGet(search_results[i], K_success))}),
     queries |-> [i \in DOMAIN search_results |->
                     ResultGet(search_results[i], K_query)],
     agent_memory |-> get_summary(memory)]

\* clear_history that empties the ledger along with the log
ClearHistory_ClearsLedger ==
    /\ AllIdle
    /\ search_results' = <<>>
    /\ finished' = <<>>
    /\ memory' = Memory_clear(memory)
    /\ UNCHANGED <<RESEARCH_HISTORY, websocket, scraper_tools,
                   frame, nruns, memory_ops>>

\* ResearchAgent.clear_history
ClearHistory ==
    /\ AllIdle
    /\ search_results' = <<>>
    /\ finished' = <<>>
    /\ UNCHANGED <<RESEARCH_HISTORY, websocket, scraper_tools,
                   memory, frame, nruns, memory_ops>>

\* reset that empties the result log along with the ledger
Reset_ClearsLog ==
    /\ AllIdle
    /\ memory' = Memory_clear(memory)
    /\ memory_ops' = 0
    /\ search_results' = <<>>
    /\ UNCHANGED <<RESEARCH_HISTORY, websocket, scraper_tools,
                   frame, finished, nruns>>

\* BaseAgent.reset
Reset ==
    /\ AllIdle
    /\ memory' = Memory_clear(memory)
    /\ memory_ops' = 0
    /\ UNCHANGED <<RESEARCH_HISTORY, websocket, scraper_tools,
                   search_results, frame, finished, nruns>>

Next ==
    \E c \in SeqCallers :
        \/ \E task \in Tasks : RunStart(c, task)
        \/ RunClassify(c)
        \/ RunRoute(c)
        \/ RunFetch(c)
        \/ RunFormat(c)
        \/ RunReturn(c)
        \/ \E r \in Registrations : RegisterScraper(r[1], r[2])
        \/ ClearHistory
        \/ Reset

Spec == Init /\ [][Next]_vars

(***************************************************************************)
(* The classification alone: a fresh agent is given one task glued from    *)
(* fragments (so that keywords also arise across fragment borders, in      *)
(* either case, and several in one task) and run classifies it.            *)
(***************************************************************************)
Fragments ==
    {<<"B", "T", "C">>, <<"b", "i", "t">>, <<"c", "o", "i", "n">>,
     <<"C", "r", "y", "p">>, <<"t", "o">>, <<"N", "e", "w", "s">>,
     <<"a", "r", "t", "i">>, <<"c", "l", "e">>, <<" ">>, <<"x">>}

RECURSIVE Glued(_)
\* the texts glued from at most n fragments
Glued(n) ==
    IF n = 0 THEN {<<>>}
    ELSE Glued(n - 1) \cup {s \o f : s \in Glued(n - 1), f \in Fragments}

ParseTasks == {PyStr(s) : s \in Glued(MaxFrags)} \cup {PyNone, PyInt(42), PyInt(0)}

NextParse ==
    \E c \in SeqCallers :
        \/ \E task \in ParseTasks : RunStart(c, task)
        \/ RunClassify(c)

SpecParse == Init /\ [][NextParse]_vars

(***************************************************************************)
(* The agent with any registry: scraper_tools is a public attribute that   *)
(* run reads as it finds it (the tests take a new agent's registry to be   *)
(* empty), so here the registry is an input of run: it starts as any       *)
(* selection of the connectors __init__ registers, in their order.         *)
(***************************************************************************)
Defaults ==
    <<Item(K_crypto, "CryptoScraper"), Item(K_news, "NewsScraper"),
      Item(K_general, "GeneralScraper")>>

RECURSIVE Registered(_, _)
\* register_scraper applied, in order, to the entries of items chosen by keep
Registered(items, keep) ==
    IF items = <<>> THEN EmptyDict
    ELSE LET n == Len(items)
             rest == Registered(SubSeq(items, 1, n - 1), keep)
         IN IF n \in keep
            THEN register_scraper(rest, items[n].k, items[n].v)
            ELSE rest

Registries == {Registered(Defaults, keep) : keep \in SUBSET (1..Len(Defaults))}

InitOpen ==
    /\ scraper_tools \in Registries
    /\ search_results = <<>>
    /\ memory = Memory_init
    /\ frame = [c \in Callers |-> IdleFrame]
    /\ finished = <<>>
    /\ nruns = 0
    /\ memory_ops = 0
    /\ RESEARCH_HISTORY = <<>>
    /\ websocket = NoSocket

NextOpen ==
    \E c \in SeqCallers :
        \/ \E task \in Tasks : RunStart(c, task)
        \/ RunClassify(c)
        \/ RunRoute(c)
        \/ RunFetch(c)
        \/ RunFormat(c)
        \/ RunReturn(c)
        \/ \E r \in Registrations : RegisterScraper(r[1], r[2])

SpecOpen == InitOpen /\ [][NextOpen]_vars

(***************************************************************************)
(* Several threads calling run on one agent.  The steps of a run are as    *)
(* fine as its accesses to the registry and to the result log: a run reads *)
(* the registry in RunRoute and writes the log once, by one list.append,   *)
(* in RunFormat, and list.append is a single step of the interpreter.      *)
(* Registrations are made while no run is under way.                       *)
(***************************************************************************)
\* the tasks the threads pass to run, and the registration made before
ConcTasks ==
    {PyNone, PyStr(<<"B", "T", "C", " ", "n", "e", "w", "s">>), PyStr(<<"a", "i">>)}

ConcRegistrations == {<<K_crypto, "MagicMock">>}

NextConc ==
    \/ \E c \in Callers :
          \/ \E task \in ConcTasks : RunStart(c, task)
          \/ RunClassify(c)
          \/ RunRoute(c)
          \/ RunFetch(c)
          \/ RunFormat(c)
          \/ RunReturn(c)
    \/ \E r \in ConcRegistrations : RegisterScraper(r[1], r[2])

SpecConc == Init /\ [][NextConc]_vars

(***************************************************************************)
(* BaseAgent.reset one assignment of Memory.clear at a time: the five      *)
(* assignments are separate statements that no lock guards, so a thread    *)
(* that reads the ledger may run between any two of them and finds the     *)
(* ledger as the state between two steps has it.                           *)
(***************************************************************************)
\* reset() is called: self.memory.clear() begins
ResetBegin(c) ==
    /\ frame[c].pc = "Idle"
    /\ frame' = [frame EXCEPT ![c] =
                    [IdleFrame EXCEPT !.pc = "Clearing", !.memory0 = memory]]
    /\ UNCHANGED <<RESEARCH_HISTORY, websocket, scraper_tools,
                   search_results, memory, finished, nruns, memory_ops>>

\* the next assignment of Memory.clear; reset returns after the fifth
ClearStep(c) ==
    /\ frame[c].pc = "Clearing"
    /\ LET k == frame[c].cleared + 1
       IN /\ memory' = ClearAssign(memory, k)
          /\ IF k = 5
             THEN /\ frame' = [frame EXCEPT ![c] = IdleFrame]
                  /\ memory_ops' = 0
             ELSE /\ frame' = [frame EXCEPT ![c].cleared = k]
                  /\ UNCHANGED memory_ops
    /\ UNCHANGED <<RESEARCH_HISTORY, websocket, scraper_tools,
                   search_results, finished, nruns>>

NextClear ==
    \E c \in SeqCallers :
        \/ \E task \in Tasks : RunStart(c, task)
        \/ RunClassify(c)
        \/ RunRoute(c)
        \/ RunFetch(c)
        \/ RunFormat(c)
        \/ RunReturn(c)
        \/ ResetBegin(c)
        \/ ClearStep(c)

SpecClear == Init /\ [][NextClear]_vars

(***************************************************************************)
(* The ledger alone: the operations of Memory called one at a time, in any *)
(* order, on the ledger of a new agent.                                    *)
(***************************************************************************)
MemTasks == {PyNone, PyStr(<<"a", "i">>)}
MemTexts == {<<"a">>, <<"b", "c">>}

MemSetTask(task) ==
    /\ memory_ops < MaxOps
    /\ memory' = set_task(memory, task)
    /\ memory_ops' = memory_ops + 1
    /\ UNCHANGED <<RESEARCH_HISTORY, websocket, scraper_tools,
                   search_results, frame, finished, nruns>>

MemAddThoughts(thought) ==
    /\ memory_ops < MaxOps
    /\ memory' = add_thoughts(memory, thought)
    /\ memory_ops' = memory_ops + 1
    /\ UNCHANGED <<RESEARCH_HISTORY, websocket, scraper_tools,
                   search_results, frame, finished, nruns>>

MemRecordToolCall(tool_name) ==
    /\ memory_ops < MaxOps
    /\ memory' = record_tool_call(memory, tool_name)
    /\ memory_ops' = memory_ops + 1
    /\ UNCHANGED <<RESEARCH_HISTORY, websocket, scraper_tools,
                   search_results, frame, finished, nruns>>

MemAddFinding(finding) ==
    /\ memory_ops < MaxOps
    /\ memory' = add_finding(memory, finding)
    /\ memory_ops' = memory_ops + 1
    /\ UNCHANGED <<RESEARCH_HISTORY, websocket, scraper_tools,
                   search_results, frame, finished, nruns>>

\* get_summary reads the five attributes and assigns none
MemGetSummary == UNCHANGED vars

NextMemory ==
    \/ \E task \in MemTasks : MemSetTask(task)
    \/ \E thought \in MemTexts : MemAddThoughts(thought)
    \/ \E tool_name \in {K_crypto, K_news} : MemRecordToolCall(tool_name)
    \/ \E finding \in MemTexts : MemAddFinding(finding)
    \/ MemGetSummary
    \/ Reset

SpecMemory == Init /\ [][NextMemory]_vars

(***************************************************************************)
(* _analyze_data alone, called as the tests call it: the caller holds the  *)
(* data and the parsed task in its frame and takes the value returned or   *)
(* the exception raised as the result.                                     *)
(***************************************************************************)
\* the data passed: the empty values of Python, answers of the connectors
\* and of the test doubles, and values that are no mapping
AnalyzeData ==
    {PyNone, EmptyDict, PyList(<<>>), PyStr(<<>>), PyInt(0), PyBool(FALSE),
     MockPrices, ResultsData, NewsScraper_parse_data, GeneralScraper_parse_data,
     GeneralScraper_fetch(PyStr(<<"a", "i">>), "ok"),
     ErrorMarker("Invalid query"),
     PyList(<<PyStr(K_bitcoin)>>), PyStr(<<"p", "r", "i", "c", "e">>), PyInt(7)}

\* the parsed tasks passed: one of each category, one of no known
\* category, and the empty one
AnalyzeTasks ==
    {_parse_task(PyStr(<<"B", "T", "C">>)), _parse_task(PyStr(<<"N", "e", "w", "s">>)),
     _parse_task(PyStr(<<"a", "i">>)),
     PyDict(<<Item(K_topic, PyStr(<<"a", "i">>)), Item(K_type, PyStr(K_bad))>>),
     EmptyDict}

InitAnalyze ==
    /\ scraper_tools =
           register_scraper(
               register_scraper(
                   register_scraper(EmptyDict, K_crypto, "CryptoScraper"),
                   K_news, "NewsScraper"),
               K_general, "GeneralScraper")
    /\ search_results = <<>>
    /\ memory = Memory_init
    /\ \E data \in AnalyzeData, parsed_task \in AnalyzeTasks :
          frame = [c \in Callers |->
                      IF c \in SeqCallers
                      THEN [IdleFrame EXCEPT !.scraped_data = data,
                                             !.parsed_task = parsed_task]
                      ELSE IdleFrame]
    /\ finished = <<>>
    /\ nruns = 0
    /\ memory_ops = 0
    /\ RESEARCH_HISTORY = <<>>
    /\ websocket = NoSocket

\* _analyze_data that also stores its text in the ledger as a finding
Analyze_RecordsFinding(c) ==
    /\ frame[c].pc = "Idle"
    /\ frame[c].result = PyNone
    /\ LET analysis == _analyze_data(frame[c].scraped_data, frame[c].parsed_task)
       IN /\ frame' = [frame EXCEPT ![c].result = analysis]
          /\ memory' = IF IsExc(analysis) THEN memory
                       ELSE add_finding(memory, analysis.s)
    /\ UNCHANGED <<RESEARCH_HISTORY, websocket, scraper_tools,
                   search_results, finished, nruns, memory_ops>>

\* analysis = self._analyze_data(data, parsed_task)
Analyze(c) ==
    /\ frame[c].pc = "Idle"
    /\ frame[c].result = PyNone
    /\ frame' = [frame EXCEPT ![c].result =
                    _analyze_data(frame[c].scraped_data, frame[c].parsed_task)]
    /\ UNCHANGED <<RESEARCH_HISTORY, websocket, scraper_tools,
                   search_results, memory, finished, nruns, memory_ops>>

NextAnalyze == \E c \in SeqCallers : Analyze(c)

SpecAnalyze == InitAnalyze /\ [][NextAnalyze]_vars

(***************************************************************************)
(* The connectors alone: a caller takes a default connector from the       *)
(* registry of a new agent and calls its fetch(query), or the fetch_url    *)
(* it inherits from BaseScraper.  frame[c].calls holds the outbound        *)
(* requests the call has made, each with the way it ended.                 *)
(***************************************************************************)
\* BaseScraper.__init__'s default for max_retries
max_retries == 3

\* the queries passed to fetch
FetchQueries ==
    {PyNone, PyStr(<<>>), PyStr(<<" ", "\t">>), PyInt(42),
     PyList(<<PyStr(K_bitcoin)>>), PyStr(K_bitcoin), PyStr(<<"a", "i">>),
     PyStr(<<"x", "y", "z">>)}

\* the ways the one outbound request of a connector's fetch can end
FetchNets(scraper) ==
    CASE scraper = "CryptoScraper" -> CryptoNet
      [] scraper = "NewsScraper" -> NewsNet
      [] scraper = "GeneralScraper" -> GeneralNet

\* scraper.fetch(query), the request (if one is made) ending as net
Fetch(scraper, query, net) ==
    CASE scraper = "CryptoScraper" -> CryptoScraper_fetch(query, net)
      [] scraper = "NewsScraper" -> NewsScraper_fetch(query, net)
      [] scraper = "GeneralScraper" -> GeneralScraper_fetch(query, net)

\* the requests.get calls scraper.fetch(query) makes: none for a query
\* validate_query rejects, for a NewsScraper without an API key and for a
\* GeneralScraper that finds the query in its local data, else one
Requests(scraper, query, net) ==
    IF ~validate_query(query) THEN 0
    ELSE IF scraper = "NewsScraper" /\ net = "no_api_key" THEN 0
    ELSE IF /\ scraper = "GeneralScraper"
            /\ DictGet(Fetch(scraper, query, net), K_source, PyNone)
                   = PyStr(<<"Local Database">>)
    THEN 0
    ELSE 1

\* result = self.scraper_tools[scraper_name].fetch(query)
FetchCall(c, scraper_name, query) ==
    /\ frame[c].pc = "Idle"
    /\ LET scraper == DictGet(scraper_tools, scraper_name, "none")
       IN \E net \in FetchNets(scraper) :
            frame' = [frame EXCEPT ![c] =
                [IdleFrame EXCEPT
                    !.pc = "Fetched", !.task = query, !.scraper = scraper,
                    !.scraper_name = scraper_name,
                    !.calls = [i \in 1..Requests(scraper, query, net) |->
                                  [scraper |-> scraper, method |-> "fetch",
                                   arg |-> query, out |-> net]],
                    !.result = Fetch(scraper, query, net)]]
    /\ UNCHANGED <<RESEARCH_HISTORY, websocket, scraper_tools,
                   search_results, memory, finished, nruns, memory_ops>>

\* response = self.scraper_tools[scraper_name].fetch_url(url) is called
FetchUrlBegin(c, scraper_name) ==
    /\ frame[c].pc = "Idle"
    /\ frame' = [frame EXCEPT ![c] =
                    [IdleFrame EXCEPT
                        !.pc = "InFetchUrl", !.scraper_name = scraper_name,
                        !.scraper = DictGet(scraper_tools, scraper_name, "none")]]
    /\ UNCHANGED <<RESEARCH_HISTORY, websocket, scraper_tools,
                   search_results, memory, finished, nruns, memory_ops>>

\* one pass of the loop of fetch_url (lines 126-150): the response is
\* returned at once, any exception is logged and the loop goes on; after
\* max_retries passes fetch_url returns None (line 153)
FetchUrlAttempt(c, out) ==
    /\ frame[c].pc = "InFetchUrl"
    /\ LET calls == Append(frame[c].calls,
                           [scraper |-> frame[c].scraper, method |-> "fetch_url",
                            arg |-> PyNone, out |-> out])
       IN frame' = [frame EXCEPT
                       ![c].calls = calls,
                       ![c].pc = IF out = "ok" \/ Len(calls) = max_retries
                                 THEN "Fetched" ELSE "InFetchUrl",
                       ![c].result = IF out = "ok" THEN PyStr(<<"<Response>">>)
                                     ELSE PyNone]
    /\ UNCHANGED <<RESEARCH_HISTORY, websocket, scraper_tools,
                   search_results, memory, finished, nruns, memory_ops>>

\* the caller takes what fetch or fetch_url returned
FetchReturn(c) ==
    /\ frame[c].pc = "Fetched"
    /\ frame' = [frame EXCEPT ![c] = IdleFrame]
    /\ UNCHANGED <<RESEARCH_HISTORY, websocket, scraper_tools,
                   search_results, memory, finished, nruns, memory_ops>>

NextFetch ==
    \E c \in SeqCallers :
        \/ \E scraper_name \in {K_crypto, K_news, K_general}, query \in FetchQueries :
              FetchCall(c, scraper_name, query)
        \/ \E scraper_name \in {K_crypto, K_news, K_general} :
              FetchUrlBegin(c, scraper_name)
        \/ \E out \in {"ok", "Timeout", "ConnectionError", "HTTPError", "Exception"} :
              FetchUrlAttempt(c, out)
        \/ FetchReturn(c)

SpecFetch == Init /\ [][NextFetch]_vars

(***************************************************************************)
(* The transport layer (backend/app.py): the handler of the streaming      *)
(* channel, which serves one message at a time and makes a new             *)
(* ResearchAgent for each, and the delete_result endpoint, which the       *)
(* server runs on its own thread.  The agent of a request is the agent of  *)
(* the variables above, made anew by WsCreateAgent; its run proceeds by    *)
(* the steps of run.                                                       *)
(***************************************************************************)
\* the messages with a query served
MaxRequests == 3

\* what json.loads makes of the text received: an exception for a text that
\* is no JSON, else the value, which may be any JSON value
WsMessages ==
    {PyExc("JSONDecodeError"), PyList(<<>>), EmptyDict,
     PyDict(<<Item(K_query, PyStr(<<>>))>>),
     PyDict(<<Item(K_query, PyStr(<<"a", "i">>))>>),
     PyDict(<<Item(K_query, PyInt(42))>>),
     PyDict(<<Item(K_query, PyStr(<<"B", "T", "C", " ", "n", "e", "w", "s">>))>>)}

\* await websocket.accept() (line 71): a client has connected
WsAccept ==
    /\ websocket.pc \in {"NotConnected", "Closed"}
    /\ websocket' = [NoSocket EXCEPT !.pc = "Receiving",
                                     !.requests = websocket.requests]
    /\ UNCHANGED <<RESEARCH_HISTORY, scraper_tools, search_results, memory, frame,
                   finished, nruns, memory_ops>>

\* lines 75-89: a message is received; json.loads or request_data.get
\* raising leaves the loop for the handler of line 139, which sends nothing,
\* and the channel is closed (line 143)
WsReceive(message) ==
    /\ websocket.pc = "Receiving"
    /\ IF IsExc(message) \/ ~IsDict(message)
       THEN websocket' = [websocket EXCEPT !.pc = "Closed", !.message = message,
                                           !.query = PyNone, !.sent = <<>>]
       ELSE LET query == DictGet(message, K_query, PyNone)
            IN IF ~Truthy(query)
               THEN websocket' = [websocket EXCEPT
                                     !.message = message, !.query = query,
                                     !.sent = <<"error">>]
               ELSE /\ websocket.requests < MaxRequests
                    /\ websocket' = [websocket EXCEPT
                                        !.pc = "Started", !.message = message,
                                        !.query = query, !.sent = <<"started">>,
                                        !.requests = @ + 1]
    /\ UNCHANGED <<RESEARCH_HISTORY, scraper_tools, search_results, memory, frame,
                   finished, nruns, memory_ops>>

\* lines 93-98: agent = ResearchAgent(), then the first progress message
WsCreateAgent ==
    /\ websocket.pc = "Started"
    /\ scraper_tools' = Registered(Defaults, 1..Len(Defaults))
    /\ search_results' = <<>>
    /\ memory' = Memory_init
    /\ finished' = <<>>
    /\ nruns' = 0
    /\ memory_ops' = 0
    /\ websocket' = [websocket EXCEPT !.pc = "Running",
                                      !.sent = Append(@, "progress")]
    /\ UNCHANGED <<RESEARCH_HISTORY, frame>>

\* line 101: results = agent.run(query) is called, on the new agent
WsRun(c) ==
    /\ websocket.pc = "Running"
    /\ nruns = 0
    /\ RunStart(c, websocket.query)

\* lines 101-112: agent.run(query) has ended; an exception of it is taken
\* by the handler of line 133, which sends the error message
WsRunDone(c) ==
    /\ websocket.pc = "Running"
    /\ Ended(c)
    /\ IF frame[c].pc = "Raised"
       THEN websocket' = [websocket EXCEPT !.pc = "Receiving",
                                           !.sent = Append(@, "error")]
       ELSE websocket' = [websocket EXCEPT
                             !.pc = "Saving", !.results = frame[c].result,
                             !.memory = get_summary(memory),
                             !.sent = Append(@, "progress")]
    /\ frame' = [frame EXCEPT ![c] = IdleFrame]
    /\ UNCHANGED <<RESEARCH_HISTORY, scraper_tools, search_results, memory,
                   finished, nruns, memory_ops>>

\* lines 115-131: the entry is saved and the completed message sent
WsSave ==
    /\ websocket.pc = "Saving"
    /\ LET result_id == Len(RESEARCH_HISTORY) + 1
       IN RESEARCH_HISTORY' =
              Append(RESEARCH_HISTORY,
                     [id |-> result_id, query |-> websocket.query,
                      findings |-> StrOf(websocket.results),
                      memory |-> websocket.memory])
    /\ websocket' = [websocket EXCEPT !.pc = "Receiving",
                                      !.sent = Append(@, "completed")]
    /\ UNCHANGED <<scraper_tools, search_results, memory, frame, finished, nruns,
                   memory_ops>>

\* delete_result(result_id); with no entry of that id it raises the 404
\* error and nothing has changed
delete_result(result_id) ==
    /\ RESEARCH_HISTORY' = SelectSeq(RESEARCH_HISTORY, LAMBDA r : r.id # result_id)
    /\ UNCHANGED <<websocket, scraper_tools, search_results, memory, frame,
                   finished, nruns, memory_ops>>

NextWs ==
    \/ WsAccept
    \/ \E message \in WsMessages : WsReceive(message)
    \/ WsCreateAgent
    \/ \E c \in SeqCallers :
          \/ WsRun(c)
          \/ RunClassify(c)
          \/ RunRoute(c)
          \/ RunFetch(c)
          \/ RunFormat(c)
          \/ WsRunDone(c)
    \/ WsSave
    \/ \E result_id \in 1..MaxRequests : delete_result(result_id)

SpecWs == Init /\ [][NextWs]_vars

(***************************************************************************)
(* What the claims speak of.                                               *)
(***************************************************************************)
\* a task that is null, empty or not a string
InvalidTask(task) == task = PyNone \/ task = PyStr(<<>>) \/ task.ty # "str"

\* the lowercased text of a str task holds one of the keywords
HasWord(task, words) == \E w \in words : Contains(w, Lower(task.s))
CryptoWords == {K_bitcoin, K_btc, K_crypto}
NewsWords == {K_news, K_article}

\* a result of run with success true / false
IsSuccess(r) == IsDict(r) /\ DictGet(r, K_success, PyNone) = PyBool(TRUE)
IsFailure(r) == IsDict(r) /\ DictGet(r, K_success, PyNone) = PyBool(FALSE)

\* caller c is inside run or at its end
InRun(c) == frame[c].pc \notin {"Idle", "Clearing"}

\* caller c's run resolved a registered connector and is past calling it
PastFetch(c) ==
    /\ frame[c].pc \in {"Formatting", "Completed", "Failed", "Raised"}
    /\ frame[c].scraper # "none"

\* the connector exposes one of the three capability methods
HasCapability(scraper) ==
    \E name \in {"fetch_prices", "fetch_article", "fetch_general"} :
        hasattr(scraper, name)

\* a mapping with an error field or with success false
IsErrorMarker(v) ==
    IsDict(v) /\ (HasKey(v, K_error) \/ DictGet(v, K_success, PyNone) = PyBool(FALSE))

\* an error marker, directly or as the value of a query in a mapping
IsErrorReply(v) ==
    \/ IsErrorMarker(v)
    \/ IsDict(v) /\ \E i \in DOMAIN v.items : IsErrorMarker(v.items[i].v)

\* the successful ones among the ended runs, in the order they ended
Successes == SelectSeq(finished, IsSuccess)

(***************************************************************************)
(* C3: for every null, empty or non-string task _parse_task returns the    *)
(* empty mapping, and run ends with a result whose success is false and    *)
(* whose error is a non-empty string, without having called a connector:   *)
(* such a run is never past classification.                                *)
(***************************************************************************)
C3_InvalidTaskFails ==
    \A c \in Callers :
        (InRun(c) /\ InvalidTask(frame[c].task)) =>
            /\ _parse_task(frame[c].task) = EmptyDict
            /\ frame[c].pc \in {"Classifying", "Failed"}
            /\ frame[c].calls = <<>>
            /\ frame[c].pc = "Failed" =>
                 /\ IsFailure(frame[c].result)
                 /\ IsStr(DictGet(frame[c].result, K_error, PyNone))
                 /\ DictGet(frame[c].result, K_error, PyNone).s # <<>>

\* a run ended on a task that is not a string
C3_Witness ==
    \E c \in Callers :
        /\ frame[c].pc = "Failed"
        /\ frame[c].task = PyInt(42)
        /\ IsFailure(frame[c].result)

(***************************************************************************)
(* C4: classification is first-match-wins in the order crypto, news,       *)
(* general on the lowercased task: a non-empty task holding 'bitcoin',     *)
(* 'btc' or 'crypto' is crypto with query 'bitcoin', also when it holds a  *)
(* news keyword; otherwise one holding 'news' or 'article' is news;        *)
(* otherwise it is general with the task as query; topic is always the     *)
(* task as given and the type is one of the three.                         *)
(***************************************************************************)
C4_FirstMatchWins ==
    \A c \in Callers :
        frame[c].pc = "Routing" =>
            LET task == frame[c].task
                parsed == frame[c].parsed_task
                type == DictGet(parsed, K_type, PyNone)
                query == DictGet(parsed, K_query, PyNone)
            IN /\ DictGet(parsed, K_topic, PyNone) = task
               /\ type \in {PyStr(K_crypto), PyStr(K_news), PyStr(K_general)}
               /\ HasWord(task, CryptoWords) =>
                    type = PyStr(K_crypto) /\ query = PyStr(K_bitcoin)
               /\ (~HasWord(task, CryptoWords) /\ HasWord(task, NewsWords)) =>
                    type = PyStr(K_news)
               /\ (~HasWord(task, CryptoWords) /\ ~HasWord(task, NewsWords)) =>
                    type = PyStr(K_general) /\ query = task

\* a task holding a cryptocurrency synonym and a news keyword was classified
C4_Witness ==
    \E c \in Callers :
        /\ frame[c].pc = "Routing"
        /\ HasWord(frame[c].task, CryptoWords)
        /\ HasWord(frame[c].task, NewsWords)
        /\ frame[c].task.s # Lower(frame[c].task.s)

(***************************************************************************)
(* C5: for every task holding a news keyword and no cryptocurrency         *)
(* synonym, _parse_task returns type 'news' and the literal query 'news'.  *)
(***************************************************************************)
C5_NewsQueryIsKeyword ==
    \A c \in Callers :
        (/\ frame[c].pc = "Routing"
         /\ HasWord(frame[c].task, NewsWords)
         /\ ~HasWord(frame[c].task, CryptoWords)) =>
            /\ DictGet(frame[c].parsed_task, K_type, PyNone) = PyStr(K_news)
            /\ DictGet(frame[c].parsed_task, K_query, PyNone) = PyStr(K_news)


(***************************************************************************)
(* C1: run never raises: for every string task and every behaviour of the  *)
(* registered connector, a run that has ended has returned a mapping with  *)
(* a boolean success field.                                                *)
(***************************************************************************)
C1_RunNeverRaises ==
    \A c \in Callers :
        (Ended(c) /\ IsStr(frame[c].task)) =>
            /\ frame[c].pc # "Raised"
            /\ IsDict(frame[c].result)
            /\ DictGet(frame[c].result, K_success, PyNone).ty = "bool"

(***************************************************************************)
(* C2: no result that run returns or stores in the result log has success  *)
(* true when the connector's reply was an error marker, directly or as the *)
(* per-query value of fetch_prices.                                        *)
(***************************************************************************)
C2_SuccessMeansData ==
    /\ \A c \in Callers :
          (Ended(c) /\ IsSuccess(frame[c].result)) =>
              ~IsErrorReply(DictGet(frame[c].result, K_scraped_data, PyNone))
    /\ \A i \in DOMAIN search_results :
          IsSuccess(search_results[i]) =>
              ~IsErrorReply(DictGet(search_results[i], K_scraped_data, PyNone))

(***************************************************************************)
(* C6, as stated: a run classified to a registered name has invoked the    *)
(* connector registered under it exactly once, no other connector, and has *)
(* increased memory.tool_calls by exactly 1.                               *)
(***************************************************************************)
C6_InvokedExactlyOnce ==
    \A c \in Callers :
        PastFetch(c) =>
            /\ Len(frame[c].calls) = 1
            /\ \A i \in DOMAIN frame[c].calls :
                  frame[c].calls[i].scraper =
                      DictGet(scraper_tools, frame[c].scraper_name, "none")
            /\ memory.tool_calls = frame[c].tool_calls0 + 1

(***************************************************************************)
(* C6, amended: a run classified to a registered name has invoked the      *)
(* connector registered under it exactly once if that connector exposes    *)
(* fetch_prices, fetch_article or fetch_general and not at all otherwise,  *)
(* has invoked no other connector, and has increased memory.tool_calls by  *)
(* exactly 1 in both cases.                                                *)
(***************************************************************************)
C6_InvokedOnceIfCapable ==
    \A c \in Callers :
        PastFetch(c) =>
            /\ Len(frame[c].calls) = (IF HasCapability(frame[c].scraper) THEN 1 ELSE 0)
            /\ \A i \in DOMAIN frame[c].calls :
                  frame[c].calls[i].scraper =
                      DictGet(scraper_tools, frame[c].scraper_name, "none")
            /\ memory.tool_calls = frame[c].tool_calls0 + 1

\* a run on a connector registered after construction has called it, in an
\* agent whose memory already counted a call
C6_Witness ==
    \E c \in Callers :
        /\ PastFetch(c)
        /\ frame[c].scraper = "MagicMock"
        /\ Len(frame[c].calls) = 1
        /\ frame[c].tool_calls0 = 1

(***************************************************************************)
(* C8: when the connector raises inside _execute_scraper, the exception is *)
(* turned into a null result: run ends with the failure 'Could not scrape  *)
(* data', success false, the exception does not reach the caller, and the  *)
(* result log is as it was when the run began.                             *)
(***************************************************************************)
C8_ConnectorExceptionCaught ==
    \A c \in Callers :
        (PastFetch(c) /\ \E i \in DOMAIN frame[c].calls : IsExc(frame[c].calls[i].out)) =>
            /\ frame[c].pc = "Failed"
            /\ frame[c].scraped_data = PyNone
            /\ IsFailure(frame[c].result)
            /\ DictGet(frame[c].result, K_error, PyNone) = PyStr(<<"Could not scrape data">>)
            /\ search_results = frame[c].results0

\* a connector raised in a run of an agent whose log holds a result
C8_Witness ==
    \E c \in Callers :
        /\ frame[c].pc = "Failed"
        /\ frame[c].calls # <<>>
        /\ IsExc(frame[c].calls[1].out)
        /\ search_results # <<>>

(***************************************************************************)
(* C9, as stated: every run call appends one result to the result log, so  *)
(* between calls the log is as long as the number of run calls made since  *)
(* construction or the last clear_history.                                 *)
(***************************************************************************)
C9_EveryRunLogged ==
    AllIdle => Len(search_results) = Len(finished)

(***************************************************************************)
(* C9, amended: a run call appends exactly one result to the result log    *)
(* when it returns success true and nothing when it returns a failure or   *)
(* raises, so that the log is the results of the successful run calls      *)
(* since construction or the last clear_history, in call order.            *)
(***************************************************************************)
C9_SuccessesLogged ==
    search_results = Successes

\* a successful run and a failed one since the log was last emptied
C9_Witness ==
    /\ AllIdle
    /\ Len(search_results) = 1
    /\ Len(finished) = 2

(***************************************************************************)
(* C10: after N successful run calls with no clear_history in between,     *)
(* get_research_summary reports total_research = N, successful = the       *)
(* number of logged results with success true, and queries = the query of  *)
(* each logged result, in order.                                           *)
(***************************************************************************)
C10_SummaryCountsSuccesses ==
    LET summary == get_research_summary
        N == Len(Successes)
    IN /\ summary.total_research = N
       /\ summary.successful = N
       /\ summary.queries = [i \in 1..N |-> DictGet(Successes[i], K_query, PyNone)]

\* two successful runs on different queries
C10_Witness ==
    /\ AllIdle
    /\ get_research_summary.total_research = 2
    /\ get_research_summary.queries[1] # get_research_summary.queries[2]

(***************************************************************************)
(* C7: when the name _decide_scraper chose is not a key of the registry,   *)
(* run ends with success false, an error message and the list of the       *)
(* registry's keys as available connectors, and has invoked no connector.  *)
(***************************************************************************)
C7_NotRegisteredFails ==
    \A c \in Callers :
        (/\ frame[c].pc \in {"Fetching", "Formatting", "Completed", "Failed", "Raised"}
         /\ frame[c].scraper_name # <<>>
         /\ ~HasKey(scraper_tools, frame[c].scraper_name)) =>
            LET keys == DictKeys(scraper_tools)
                available == DictGet(frame[c].result, K_available_scraper, PyNone)
                error == DictGet(frame[c].result, K_error, PyNone)
            IN /\ frame[c].pc = "Failed"
               /\ IsFailure(frame[c].result)
               /\ IsStr(error) /\ error.s # <<>>
               /\ available.ty = "list"
               /\ Len(available.items) = Len(keys)
               /\ \A i \in DOMAIN keys : available.items[i] = PyStr(keys[i])
               /\ frame[c].calls = <<>>
               /\ memory.tool_calls = frame[c].tool_calls0

\* a news task met a registry that holds a crypto connector and no news one
C7_Witness ==
    \E c \in Callers :
        /\ frame[c].pc = "Failed"
        /\ frame[c].scraper_name = K_news
        /\ HasKey(scraper_tools, K_crypto)
        /\ ~HasKey(scraper_tools, K_news)

(***************************************************************************)
(* C11: a run call passes through Classifying, Routing, Fetching and       *)
(* Formatting in that order, skipping and repeating none, and ends in      *)
(* Completed or in Failed; Failed is entered only from Classifying,        *)
(* Routing or Fetching, and Formatting is left only to Completed.          *)
(***************************************************************************)
C11_StagesInOrder ==
    [][LET StageSteps ==
               {<<"Idle", "Classifying">>,
                <<"Classifying", "Routing">>, <<"Classifying", "Failed">>,
                <<"Routing", "Fetching">>, <<"Routing", "Failed">>,
                <<"Fetching", "Formatting">>, <<"Fetching", "Failed">>,
                <<"Formatting", "Completed">>,
                <<"Completed", "Idle">>, <<"Failed", "Idle">>}
       IN \A c \in Callers :
              \/ frame[c].pc' = frame[c].pc
              \/ <<frame[c].pc, frame[c].pc'>> \in StageSteps]_vars

(***************************************************************************)
(* C12: run records the task in the ledger before it classifies: while a   *)
(* run is under way and when it has ended, on every path, memory.task is   *)
(* the task passed to it, and the first history entry written since the    *)
(* run began is the task entry for it, before every other entry of the run *)
(* and after the entries that were there.                                  *)
(***************************************************************************)
C12_TaskRecordedFirst ==
    \A c \in Callers :
        InRun(c) =>
            LET before == frame[c].memory0.history
                n == Len(before)
            IN /\ memory.task = frame[c].task
               /\ Len(memory.history) > n
               /\ SubSeq(memory.history, 1, n) = before
               /\ memory.history[n + 1] = <<"Task set: ">> \o StrOf(frame[c].task)
               /\ \A i \in (n + 2)..Len(memory.history) :
                     memory.history[i][1] \in {"Thought: ", "Tool called: ", "Finding: "}

\* a run that failed for want of a registered connector, in an agent whose
\* ledger held the entries of a run that failed for want of data
C12_Witness ==
    \E c \in Callers :
        /\ frame[c].pc = "Failed"
        /\ frame[c].scraper_name # <<>>
        /\ frame[c].scraper = "none"
        /\ frame[c].memory0.tool_calls = 1
        /\ frame[c].memory0.findings = <<>>
        /\ Len(memory.history) = Len(frame[c].memory0.history) + 2

(***************************************************************************)
(* C13: each run works on a ledger of its own or on one reset as the run   *)
(* begins: the ledger a run starts from holds no thoughts, findings,       *)
(* tool calls or history of another run, so that what is observed for the  *)
(* run (at most one thought, one tool call and one finding, and its task)  *)
(* was written by that run alone.                                          *)
(***************************************************************************)
C13_OwnLedger ==
    \A c \in Callers :
        InRun(c) =>
            /\ frame[c].memory0.thoughts = <<>>
            /\ frame[c].memory0.findings = <<>>
            /\ frame[c].memory0.tool_calls = 0
            /\ frame[c].memory0.history = <<>>
            /\ memory.task = frame[c].task
            /\ Len(memory.thoughts) <= 1
            /\ Len(memory.findings) <= 1
            /\ memory.tool_calls <= 1

(***************************************************************************)
(* C14: run calls that overlap on one agent lose and duplicate no append   *)
(* to the result log and leave the registry as it is: the log is exactly   *)
(* the results of the runs that completed successfully, one entry each in  *)
(* the order they completed, the result of a completed run stands in the   *)
(* part of the log written since that run began, and no step taken while a *)
(* run is under way changes the registry.                                  *)
(***************************************************************************)
C14_ConcurrentAppendsKept ==
    /\ [](/\ search_results = Successes
          /\ \A c \in Callers :
                frame[c].pc = "Completed" =>
                    \E i \in (Len(frame[c].results0) + 1)..Len(search_results) :
                        search_results[i] = frame[c].result)
    /\ [][(\E c \in Callers : InRun(c) \/ InRun(c)') =>
              scraper_tools' = scraper_tools]_vars

\* two runs that began on the same empty log have both completed
C14_Witness ==
    /\ \A c \in Callers :
          /\ frame[c].pc = "Completed"
          /\ frame[c].results0 = <<>>
    /\ frame["c1"].result # frame["c2"].result
    /\ Len(search_results) = 2

(***************************************************************************)
(* C15: Memory.clear resets the ledger to its initial state atomically: a  *)
(* ledger on which no operation was made since it was created or last      *)
(* cleared has the summary of a new Memory, and while a clear is under way *)
(* the summary a concurrent reader gets is that of the ledger as it was    *)
(* before the clear or that of a new Memory, never one with only some of   *)
(* the attributes reset.                                                   *)
(***************************************************************************)
C15_ClearAtomic ==
    /\ memory_ops = 0 => get_summary(memory) = get_summary(Memory_init)
    /\ \A c \in Callers :
          frame[c].pc = "Clearing" =>
              get_summary(memory) \in {get_summary(frame[c].memory0),
                                       get_summary(Memory_init)}

(***************************************************************************)
(* C16: each of set_task, add_thoughts, record_tool_call and add_finding   *)
(* appends exactly one entry, tagged with its kind, to the end of history  *)
(* and changes no attribute but its own; get_summary changes nothing; and  *)
(* the history_length get_summary reports is the number of these           *)
(* operations made since the ledger was created or last cleared.           *)
(***************************************************************************)
C16_OneEntryPerOperation ==
    /\ [](get_summary(memory).history_length = memory_ops)
    /\ [][LET old == memory.history
              new == memory'.history
              entry == new[Len(new)]
              grown == [memory EXCEPT !.history = Append(old, entry)]
          IN \/ memory' = memory
             \/ memory' = Memory_init /\ memory_ops' = 0
             \/ /\ memory_ops' = memory_ops + 1
                /\ Len(new) = Len(old) + 1
                /\ \/ /\ entry = <<"Task set: ">> \o StrOf(memory'.task)
                      /\ memory' = [grown EXCEPT !.task = memory'.task]
                   \/ /\ entry[1] = "Thought: "
                      /\ memory' = [grown EXCEPT !.thoughts = Append(@, Tail(entry))]
                   \/ /\ entry[1] = "Tool called: "
                      /\ memory' = [grown EXCEPT !.tool_calls = @ + 1]
                   \/ /\ entry[1] = "Finding: "
                      /\ memory' = [grown EXCEPT !.findings = Append(@, Tail(entry))]]_vars

\* a ledger that took one operation of each kind, the finding last
C16_Witness ==
    /\ memory.task # PyNone
    /\ Len(memory.thoughts) = 1
    /\ memory.tool_calls = 1
    /\ Len(memory.findings) = 1
    /\ get_summary(memory).history_length = 4
    /\ memory.history[4][1] = "Finding: "

(***************************************************************************)
(* C17: registration is last-write-wins and idempotent: the registry never *)
(* holds two entries for a name; a register_scraper(X, c) leaves exactly   *)
(* one entry for X, mapped to c, the other entries as they were and no     *)
(* further entry; and no other step changes what a name resolves to.       *)
(***************************************************************************)
C17_LastWriteWins ==
    /\ [](\A i, j \in DOMAIN scraper_tools.items :
             scraper_tools.items[i].k = scraper_tools.items[j].k => i = j)
    /\ [][LET old == scraper_tools
              new == scraper_tools'
              Keys(d) == {d.items[i].k : i \in DOMAIN d.items}
          IN \/ new = old
             \/ /\ AllIdle /\ AllIdle'
                /\ \E r \in Registrations :
                      /\ Cardinality({i \in DOMAIN new.items : new.items[i].k = r[1]}) = 1
                      /\ DictGet(new, r[1], "none") = r[2]
                      /\ Keys(new) = Keys(old) \cup {r[1]}
                      /\ \A k \in Keys(old) \ {r[1]} :
                            DictGet(new, k, "none") = DictGet(old, k, "none")]_vars

\* the default crypto connector was replaced and a fourth name registered
C17_Witness ==
    /\ DictGet(scraper_tools, K_crypto, "none") = "object"
    /\ DictGet(scraper_tools, K_news, "none") = "DummyScraper"
    /\ DictGet(scraper_tools, K_general, "none") = "GeneralScraper"
    /\ HasKey(scraper_tools, K_bad)
    /\ Len(scraper_tools.items) = 4

(***************************************************************************)
(* C18: a newly constructed ResearchAgent has an empty registry, an empty  *)
(* result log and an empty ledger, and a connector is in the registry only *)
(* after an explicit register_scraper call: every entry of the registry is *)
(* one that a register_scraper call of the agent's user made.              *)
(***************************************************************************)
C18_FreshAgentEmpty ==
    /\ (nruns = 0 /\ memory_ops = 0 /\ AllIdle) =>
           /\ search_results = <<>>
           /\ get_summary(memory) = get_summary(Memory_init)
    /\ \A i \in DOMAIN scraper_tools.items :
          <<scraper_tools.items[i].k, scraper_tools.items[i].v>> \in Registrations

(***************************************************************************)
(* C19: _execute_scraper calls exactly one capability method of the        *)
(* connector, the first it exposes of fetch_prices (called with the        *)
(* one-element list of the query), fetch_article (with the query) and      *)
(* fetch_general (with the query), whatever the category of the task; a    *)
(* connector that exposes none is not called and the result is null.       *)
(***************************************************************************)
C19_CapabilityPriority ==
    \A c \in Callers :
        PastFetch(c) =>
            LET scraper == frame[c].scraper
                query == DictGet(frame[c].parsed_task, K_query, PyNone)
                calls == frame[c].calls
            IN IF hasattr(scraper, "fetch_prices")
               THEN /\ Len(calls) = 1
                    /\ calls[1].method = "fetch_prices"
                    /\ calls[1].arg = PyList(<<query>>)
               ELSE IF hasattr(scraper, "fetch_article")
               THEN /\ Len(calls) = 1
                    /\ calls[1].method = "fetch_article"
                    /\ calls[1].arg = query
               ELSE IF hasattr(scraper, "fetch_general")
               THEN /\ Len(calls) = 1
                    /\ calls[1].method = "fetch_general"
                    /\ calls[1].arg = query
               ELSE /\ calls = <<>>
                    /\ frame[c].scraped_data = PyNone
                    /\ frame[c].pc = "Failed"

\* a news task went to a connector that exposes all three methods
C19_Witness ==
    \E c \in Callers :
        /\ PastFetch(c)
        /\ frame[c].scraper = "DummyScraper"
        /\ DictGet(frame[c].parsed_task, K_type, PyNone) = PyStr(K_news)
        /\ frame[c].calls # <<>>
        /\ frame[c].calls[1].method = "fetch_prices"

(***************************************************************************)
(* C20: for empty or null data _analyze_data returns the fixed text 'No    *)
(* data to analyze' whatever the parsed task; for every non-empty data it  *)
(* returns a text, which contains the topic of the task.                   *)
(***************************************************************************)
C20_AnalysisIsText ==
    \A c \in Callers :
        (frame[c].pc = "Idle" /\ frame[c].result # PyNone) =>
            LET topic == DictGet(frame[c].parsed_task, K_topic, PyNone)
            IN IF ~Truthy(frame[c].scraped_data)
               THEN frame[c].result = PyStr(<<"No data to analyze">>)
               ELSE /\ IsStr(frame[c].result)
                    /\ Contains(StrOf(topic), frame[c].result.s)

C22_FetchNeverRaises ==
    \A c \in SeqCallers :
        (frame[c].pc = "Fetched"
         /\ (frame[c].calls = <<>> \/ frame[c].calls[1].method = "fetch")) =>
            LET query == frame[c].task
                result == frame[c].result
                blank == \/ ~IsStr(query)
                         \/ \A i \in DOMAIN query.s : query.s[i] \in Whitespace
            IN /\ IsDict(result)
               /\ \/ /\ DictGet(result, K_success, PyNone) = PyBool(TRUE)
                     /\ ~HasKey(result, K_error)
                  \/ /\ DictKeys(result) = <<K_error, K_success>>
                     /\ IsStr(DictGet(result, K_error, PyNone))
                     /\ DictGet(result, K_success, PyNone) = PyBool(FALSE)
               /\ blank => /\ result = ErrorMarker("Invalid query")
                           /\ frame[c].calls = <<>>

\* a whitespace-only query was refused by the crypto connector
C22_Witness ==
    \E c \in SeqCallers :
        /\ frame[c].pc = "Fetched"
        /\ frame[c].scraper = "CryptoScraper"
        /\ frame[c].task = PyStr(<<" ", "\t">>)
        /\ frame[c].result = ErrorMarker("Invalid query")
        /\ frame[c].calls = <<>>

(***************************************************************************)
(* C23: a connector retries a failed outbound request: a call that has     *)
(* ended made at most max_retries requests, none after a successful one,   *)
(* and a call whose last request failed made max_retries of them before    *)
(* it reported the failure (the error marker, or None from fetch_url).     *)
(***************************************************************************)
C23_RetriedUpToMaxRetries ==
    \A c \in SeqCallers :
        (frame[c].pc = "Fetched" /\ frame[c].calls # <<>>) =>
            LET calls == frame[c].calls
                n == Len(calls)
            IN /\ n <= max_retries
               /\ \A i \in 1..(n - 1) : calls[i].out # "ok"
               /\ calls[n].out # "ok" =>
                      /\ n = max_retries
                      /\ ~IsExc(frame[c].result)
                      /\ (frame[c].result = PyNone \/ IsErrorMarker(frame[c].result))

(***************************************************************************)
(* C24: the tool-call counter is incremented exactly when run reaches      *)
(* Fetching.  Inside a run and at its end memory.tool_calls is one more    *)
(* than when the run began if the run has resolved its connector (whether  *)
(* the connector then returns data, returns null or raises), and is what   *)
(* it was if the run has not, or failed at classification or at routing;   *)
(* and the run has added a finding, exactly one, only if it has completed  *)
(* successfully.                                                           *)
(***************************************************************************)
C24_ToolCallCountedAtFetching ==
    \A c \in SeqCallers :
        InRun(c) =>
            /\ memory.tool_calls =
                   frame[c].tool_calls0
                   + (IF frame[c].pc \in {"Classifying", "Routing"}
                         \/ (frame[c].pc = "Failed" /\ frame[c].scraper = "none")
                      THEN 0 ELSE 1)
            /\ frame[c].pc \in {"Fetching", "Formatting"} => frame[c].scraper # "none"
            /\ Len(memory.findings) =
                   Len(frame[c].memory0.findings)
                   + (IF frame[c].pc = "Completed" THEN 1 ELSE 0)
            /\ frame[c].pc = "Completed" => IsSuccess(frame[c].result)

\* a run counted its tool call and then failed because the connector raised
C24_Witness ==
    \E c \in SeqCallers :
        /\ frame[c].pc = "Failed"
        /\ frame[c].calls # <<>>
        /\ IsExc(frame[c].calls[1].out)
        /\ memory.tool_calls = frame[c].tool_calls0 + 1
        /\ frame[c].tool_calls0 > 0
        /\ memory.findings = frame[c].memory0.findings

(***************************************************************************)
(* C25: the ledger grows monotonically and is never pruned.  Every step of *)
(* run, register_scraper and clear_history leaves each of thoughts,        *)
(* findings and history with what it held as a prefix and tool_calls no    *)
(* smaller; the only step that takes anything away is BaseAgent.reset,     *)
(* that is Memory.clear.                                                   *)
(***************************************************************************)
C25_LedgerMonotone ==
    [][\/ Reset
       \/ /\ memory'.tool_calls >= memory.tool_calls
          /\ \A f \in {"thoughts", "findings", "history"} :
                /\ Len(memory'[f]) >= Len(memory[f])
                /\ SubSeq(memory'[f], 1, Len(memory[f])) = memory[f]]_vars

\* clear_history was called after two runs: the log is empty, the ledger
\* still holds what both runs recorded
C25_Witness ==
    /\ AllIdle
    /\ nruns = 2
    /\ search_results = <<>>
    /\ Len(memory.findings) >= 1
    /\ Len(memory.history) >= 6
    /\ memory.tool_calls >= 1

(***************************************************************************)
(* C26: on an agent on which neither clear_history nor reset has been      *)
(* called, after any sequence of run calls made one after the other, the   *)
(* result log is as long as the findings, which are no more than the tool  *)
(* calls, which are no more than the thoughts, which are no more than the  *)
(* run calls made; and every entry of the log has success true, so that    *)
(* get_research_summary reports total_research equal to successful.        *)
(***************************************************************************)
C26_CountersOrdered ==
    /\ Len(search_results) = Len(memory.findings)
    /\ Len(memory.findings) <= memory.tool_calls
    /\ memory.tool_calls <= Len(memory.thoughts)
    /\ Len(memory.thoughts) <= nruns
    /\ \A i \in DOMAIN search_results : IsSuccess(search_results[i])
    /\ get_research_summary.total_research = get_research_summary.successful

\* two runs have ended, one at routing and one at the fetch: no finding,
\* one tool call, two thoughts
C26_Witness ==
    /\ AllIdle
    /\ nruns = 2
    /\ search_results = <<>>
    /\ memory.tool_calls = 1
    /\ Len(memory.thoughts) = 2

C28_ClearsOnlyItsOwn ==
    [][/\ ClearHistory =>
             /\ get_research_history' = <<>>
             /\ get_research_summary'.total_research = 0
             /\ get_research_summary'.successful = 0
             /\ get_research_summary'.queries = <<>>
             /\ get_research_summary'.agent_memory = get_summary(memory)
             /\ memory' = memory
             /\ scraper_tools' = scraper_tools
       /\ Reset =>
             /\ memory' = Memory_init
             /\ get_summary(memory') =
                    [task |-> PyNone, thoughts |-> <<>>, tool_calls |-> 0,
                     findings |-> <<>>, history_length |-> 0]
             /\ search_results' = search_results
             /\ get_research_history' = get_research_history
             /\ scraper_tools' = scraper_tools]_vars

\* a run, a reset, a second run that completed, then clear_history: the log
\* is empty and the ledger holds the four entries of the second run alone
C28_Witness ==
    /\ AllIdle
    /\ nruns = 2
    /\ search_results = <<>>
    /\ Len(memory.findings) = 1
    /\ Len(memory.history) = 4
    /\ HasKey(scraper_tools, K_bad)

(***************************************************************************)
(* C29: the ids of the entries of RESEARCH_HISTORY are pairwise distinct   *)
(* after any sequence of completed research requests on the streaming      *)
(* channel and delete_result calls, so that a given id addresses at most   *)
(* one entry.                                                              *)
(***************************************************************************)
C29_IdsDistinct ==
    \A i, j \in DOMAIN RESEARCH_HISTORY :
        i # j => RESEARCH_HISTORY[i].id # RESEARCH_HISTORY[j].id

(***************************************************************************)
(* C30: on the streaming channel every received message with a non-empty   *)
(* query produces the messages started, progress, progress in that order,  *)
(* then exactly one of completed and error; an entry is appended to        *)
(* RESEARCH_HISTORY exactly in the step that sends completed (also when    *)
(* the result of the agent has success false); and every received message  *)
(* without a query produces the single message error and no entry, and the *)
(* channel goes on receiving.                                              *)
(***************************************************************************)
C30_MessageProtocol ==
    /\ [](LET message == websocket.message
              sent == websocket.sent
              with_query == /\ IsDict(message)
                            /\ Truthy(DictGet(message, K_query, PyNone))
          IN /\ websocket.pc = "Started" => sent = <<"started">>
             /\ websocket.pc = "Running" => sent = <<"started", "progress">>
             /\ websocket.pc = "Saving" =>
                    sent = <<"started", "progress", "progress">>
             /\ (websocket.pc \in {"Receiving", "Closed"} /\ message # PyNone) =>
                    IF with_query
                    THEN /\ websocket.pc = "Receiving"
                         /\ sent \in {<<"started", "progress", "progress", "completed">>,
                                      <<"started", "progress", "progress", "error">>}
                    ELSE /\ websocket.pc = "Receiving"
                         /\ sent = <<"error">>)
    /\ [][Len(RESEARCH_HISTORY') > Len(RESEARCH_HISTORY)
              <=> websocket'.sent = Append(websocket.sent, "completed")]_vars

=============================================================================
